---- MODULE Spec2Model ----
(***************************************************************************)
(* Model of the "imgtogif" chat-command plugin (src/src/index.ts).         *)
(*                                                                         *)
(* The source file holds two complete variants of the plugin:              *)
(*   "png"    lines   1-191: convertImageToGif draws the image on a canvas *)
(*            and returns canvas.toBlob(.., "image/png") as a .png File;   *)
(*   "gifenc" lines 193-403: convertImageToGif lazily imports the gifenc   *)
(*            library and returns GIFEncoder().bytesView() as a .gif File. *)
(* world.variant says which of the two is loaded.                          *)
(*                                                                         *)
(* One command execution is a sequence of steps separated by the awaits    *)
(* of the code; everything between two awaits is one atomic action.        *)
(***************************************************************************)
EXTENDS Integers, Sequences, FiniteSets, TLC

VARIABLES
    world,      \* what is loaded and what the host offers (fixed by Init)
    ex,         \* ex[e]: the state of command execution e
    lib,        \* module-level GIFEncoder, quantize, applyPalette (set or not)
    encoders,   \* encoders[i]: the stream of the i-th object made by GIFEncoder()
    unregisterCommand,  \* module-level: the command whose unregister function
                        \* registerCommand returned last (0: undefined)
    commands,   \* commands[i]: the i-th command given to registerCommand
    calls       \* the calls of onLoad / onUnload so far, in order

plugin == <<unregisterCommand, commands, calls>>

vars == <<world, ex, lib, encoders, unregisterCommand, commands,
          calls>>

----------------------------------------------------------------------------
(* Bounds of the model.                                                    *)

NumExecs == 2       \* command executions in flight together
MaxDim == 3         \* source images of 1..MaxDim by 1..MaxDim pixels
MaxTarget == 2      \* width / height arguments 0..MaxTarget
MaxCalls == 3       \* calls of onLoad / onUnload

(* Program constants.                                                      *)

FRAMES == 1         \* frames written per conversion
MaxColors == 256    \* quantize(data, 256)
Undefined == -1     \* an optional number argument that was not given

----------------------------------------------------------------------------
(* IEEE-754 binary64 arithmetic, as far as                                 *)
(*     Math.round((avatar.height / avatar.width) * width)                  *)
(* needs it.  A positive double is [m, e]: m its 53 significand bits, most *)
(* significant first (m[1] = 1), e the exponent of m[1]; its value is      *)
(* m[1]*2^e + m[2]*2^(e-1) + ...                                           *)

Precision == 53

RECURSIVE DivBits(_, _, _)
\* the next n bits of the binary expansion of r / b, for 0 <= r < b
DivBits(r, b, n) ==
    IF n = 0 THEN <<>>
    ELSE IF 2 * r >= b THEN <<1>> \o DivBits(2 * r - b, b, n - 1)
                       ELSE <<0>> \o DivBits(2 * r, b, n - 1)

RECURSIVE DivRem(_, _, _)
\* the remainder left after those n bits
DivRem(r, b, n) ==
    IF n = 0 THEN r
    ELSE IF 2 * r >= b THEN DivRem(2 * r - b, b, n - 1)
                       ELSE DivRem(2 * r, b, n - 1)

RECURSIVE Normalize(_, _, _)
\* <<a', b', e>> with a/b = (a'/b') * 2^e and 1 <= a'/b' < 2
Normalize(a, b, e) ==
    IF a < b THEN Normalize(2 * a, b, e - 1)
    ELSE IF a >= 2 * b THEN Normalize(a, 2 * b, e + 1)
    ELSE <<a, b, e>>

RECURSIVE Increment(_)
\* a bit string plus one; the result is one bit longer when the carry runs out
Increment(bits) ==
    IF bits = <<>> THEN <<1>>
    ELSE IF bits[Len(bits)] = 0
         THEN SubSeq(bits, 1, Len(bits) - 1) \o <<1>>
         ELSE LET up == Increment(SubSeq(bits, 1, Len(bits) - 1))
              IN  up \o <<0>>

\* round to nearest, ties to even: bits is the exact significand (at least
\* Precision bits), sticky says whether more non-zero bits follow it
RoundNearestEven(bits, sticky, e) ==
    LET m     == SubSeq(bits, 1, Precision)
        rest  == SubSeq(bits, Precision + 1, Len(bits))
        guard == IF rest = <<>> THEN 0 ELSE rest[1]
        tail  == sticky \/ \E i \in 2..Len(rest) : rest[i] = 1
        up    == guard = 1 /\ (tail \/ m[Precision] = 1)
        inc   == Increment(m)
    IN  IF ~up THEN [m |-> m, e |-> e]
        ELSE IF Len(inc) > Precision
             THEN [m |-> SubSeq(inc, 1, Precision), e |-> e + 1]
             ELSE [m |-> inc, e |-> e]

\* the double a / b, for integers a, b >= 1
DoubleDiv(a, b) ==
    LET n == Normalize(a, b, 0)
        q == DivBits(n[1] - n[2], n[2], Precision)
        r == DivRem(n[1] - n[2], n[2], Precision)
    IN  RoundNearestEven(<<1>> \o q, r # 0, n[3])

RECURSIVE ToBits(_)
ToBits(n) == IF n = 0 THEN <<>> ELSE ToBits(n \div 2) \o <<n % 2>>

RECURSIVE CarryInto(_, _, _)
\* the carry that reaches bit i when bits is multiplied by k
CarryInto(bits, k, i) ==
    IF i = Len(bits) THEN 0
    ELSE (bits[i + 1] * k + CarryInto(bits, k, i + 1)) \div 2

\* bits * k, as a bit string
MulBits(bits, k) ==
    ToBits((bits[1] * k + CarryInto(bits, k, 1)) \div 2)
        \o [i \in 1..Len(bits) |-> (bits[i] * k + CarryInto(bits, k, i)) % 2]

\* the double x * k, for an integer k >= 1
DoubleMulInt(x, k) ==
    LET p == MulBits(x.m, k)
    IN  RoundNearestEven(p, FALSE, x.e + (Len(p) - Precision))

RECURSIVE ToInt(_)
ToInt(bits) ==
    IF bits = <<>> THEN 0
    ELSE 2 * ToInt(SubSeq(bits, 1, Len(bits) - 1)) + bits[Len(bits)]

\* Math.round of a positive double below 2^51: the nearest integer, a tie
\* going up
MathRound(x) ==
    IF x.e < -1 THEN 0
    ELSE IF x.e = -1 THEN 1
    ELSE ToInt(SubSeq(x.m, 1, x.e + 1)) + x.m[x.e + 2]

----------------------------------------------------------------------------
(* Inputs.                                                                 *)

Execs == 1..NumExecs

\* sizes <<width, height>> of the decoded source image
ExtraSources == {<<22, 15>>, <<200, 50>>}
Sources == ((1..MaxDim) \X (1..MaxDim)) \cup ExtraSources

\* values of the width / height arguments
ExtraTargets == {11, 100}
Targets == {Undefined} \cup (0..MaxTarget) \cup ExtraTargets

\* numbers of distinct colours the canvas pixels may show
ColorCounts == {1, 2, MaxColors, 300}

\* inputs of the runs with several executions in flight
ConcSources == {<<1, 1>>, <<2, 1>>}
ConcTargets == {Undefined}

\* the one source of the runs that are checked for progress
FairSources == {<<1, 1>>}

\* a source and a width whose height rounds to 0: the canvas is empty
ThinSources == {<<3, 1>>}
ThinWidths == {1}

\* the inputs of one run: the executions of a run with an ordinary image
\* leave width and height out; those of a run with the thin one give the
\* width
ConcInputs ==
    {[sources |-> ConcSources, widths |-> ConcTargets],
     [sources |-> ThinSources, widths |-> ThinWidths]}
FairInputs ==
    {[sources |-> FairSources, widths |-> ConcTargets],
     [sources |-> ThinSources, widths |-> ThinWidths]}

Min(a, b) == IF a <= b THEN a ELSE b

----------------------------------------------------------------------------
(* convertImageToGif: the size of the output.                              *)

\* JavaScript truthiness of an optional number argument
Truthy(x) == x # Undefined /\ x # 0

\* Math.round((a / b) * k)
ScaleRound(a, b, k) == MathRound(DoubleMulInt(DoubleDiv(a, b), k))

\* <<gifWidth, gifHeight>> for a source of avatar[1] x avatar[2] pixels
ResolveDims(avatar, width, height) ==
    IF Truthy(width) /\ Truthy(height) THEN <<width, height>>
    ELSE IF Truthy(width) THEN <<width, ScaleRound(avatar[2], avatar[1], width)>>
    ELSE IF Truthy(height) THEN <<ScaleRound(avatar[1], avatar[2], height), height>>
    ELSE avatar

\* ResolveDims as a table over the sources and arguments of a run
ResolvedDims(sources, widths, heights) ==
    [avatar \in sources, width \in widths, height \in heights |->
        ResolveDims(avatar, width, height)]

----------------------------------------------------------------------------
(* Files.  A file is its MIME type, its extension and the sequence of the  *)
(* blocks of its content; a block is [kind, w, h, n].                      *)

Block(kind, w, h, n) == [kind |-> kind, w |-> w, h |-> h, n |-> n]

NoFile == [type |-> "none", ext |-> "", stream |-> <<>>]

\* the bytes a block starts with / ends with, for the blocks a file can
\* start or end with
FirstBytes(file) ==
    IF file.stream = <<>> THEN <<>>
    ELSE IF file.stream[1].kind = "header" THEN <<71, 73, 70, 56, 57, 97>>
    ELSE IF file.stream[1].kind = "png-signature"
         THEN <<137, 80, 78, 71, 13, 10, 26, 10>>
    ELSE <<>>

LastByte(file) ==
    IF file.stream = <<>> THEN -1
    ELSE IF file.stream[Len(file.stream)].kind = "trailer" THEN 59
    ELSE IF file.stream[Len(file.stream)].kind = "IEND" THEN 130
    ELSE -1

BlocksOf(file, kind) == {i \in 1..Len(file.stream) : file.stream[i].kind = kind}

\* canvas.toBlob(.., "image/png") of a w x h canvas, wrapped in a File
PngFile(w, h) ==
    [type |-> "image/png", ext |-> "png",
     stream |-> <<Block("png-signature", 0, 0, 0), Block("IHDR", w, h, 0),
                  Block("IDAT", w, h, 0), Block("IEND", 0, 0, 0)>>]

----------------------------------------------------------------------------
(* The gifenc library, as the plugin uses it.                              *)

\* quantize(data, maxColors): the possible lengths of the palette it
\* returns for pixels of `colors` distinct colours: at least one entry, at
\* most maxColors, never more than there are colours
quantize(colors, maxColors) ==
    {p \in {1, 2, maxColors} : p <= Min(colors, maxColors)}

RECURSIVE TableBits(_, _)
\* the least b >= from with 2^b >= n
TableBits(n, from) ==
    IF 2 ^ from >= n THEN from ELSE TableBits(n, from + 1)

\* entries of the colour table written for a palette of n entries
ColorTableLength(n) == 2 ^ TableBits(n, 1)

\* GIFEncoder(): a new encoder with its own empty stream
NewStream == [hasInit |-> FALSE, stream |-> <<>>]

\* gif.writeFrame(index, w, h, {transparent: true, palette})
writeFrame(enc, w, h, palette) ==
    LET first == ~enc.hasInit
        head  == IF first
                 THEN <<Block("header", 0, 0, 0), Block("screen", w, h, 0),
                        Block("global-table", 0, 0, ColorTableLength(palette)),
                        Block("loop", 0, 0, 0)>>
                 ELSE <<>>
        tbl   == IF first THEN <<>>
                 ELSE <<Block("local-table", 0, 0, ColorTableLength(palette))>>
    IN  [hasInit |-> TRUE,
         stream  |-> enc.stream \o head
                       \o <<Block("control", 0, 0, 0), Block("image", w, h, 0)>>
                       \o tbl \o <<Block("pixels", w, h, 8)>>]

\* gif.finish()
finish(enc) == [enc EXCEPT !.stream = Append(@, Block("trailer", 0, 0, 0))]

\* new File([gif.bytesView()], name + ".gif", {type: "image/gif"})
GifFile(enc) == [type |-> "image/gif", ext |-> "gif", stream |-> enc.stream]

----------------------------------------------------------------------------
(* One command execution.                                                  *)

NoTries == [fetch |-> 0, blob |-> 0, import |-> 0, convert |-> 0,
            image |-> 0, toBlob |-> 0, timeout |-> 0]

Idle ==
    [pc      |-> "idle",     \* where the execution stands
     image   |-> FALSE,      \* the image argument was given
     width   |-> Undefined,  \* the width argument
     height  |-> Undefined,  \* the height argument
     msgs    |-> <<>>,       \* messages sent with sendMessage, in order
     avatar  |-> <<0, 0>>,   \* size of the loaded image
     gif     |-> <<>>,       \* <<gifWidth, gifHeight>> once resolved
     colors  |-> 0,          \* distinct colours of the canvas pixels
     palette |-> 0,          \* length of the palette quantize returned
     encoder |-> 0,          \* the encoder GIFEncoder() returned
     file    |-> NoFile,     \* the file convertImageToGif returned
     prompts |-> <<>>,       \* files passed to promptToUpload
     raised  |-> "",         \* the step whose failure rejected the conversion
     err     |-> "",         \* the step whose failure reached the catch
     tries   |-> NoTries,    \* how often each step was started
     urls    |-> [created |-> 0, revoked |-> 0],
     reads   |-> {},         \* the variables it has read, as <<scope, name>>
     writes  |-> {}]         \* the variables it has written

\* the variables of line 196, which loadGifEncoder assigns
HandleVars == {"GIFEncoder", "quantize", "applyPalette"}

\* a variable declared at the top level of the module: one for all
\* executions
Module(name) == <<0, name>>

\* a local that was declared at the top level of the module instead
Local_hoisted(e, name) == <<0, name>>

\* a const or let declared inside execute, convertImageToGif, loadImage or
\* loadGifEncoder: one for each invocation
Local(e, name) == <<e, name>>

readModule(r, names) ==
    [r EXCEPT !.reads = @ \cup {Module(n) : n \in names}]
writeModule(r, names) ==
    [r EXCEPT !.writes = @ \cup {Module(n) : n \in names}]
writeLocal(r, e, names) ==
    [r EXCEPT !.writes = @ \cup {Local(e, n) : n \in names}]

\* the catch block of execute
catch(r, step) ==
    [readModule(r, {"messageUtil"}) EXCEPT
        !.msgs = Append(@, "error"), !.pc = "done", !.err = step]

\* an upload branch without its else: the prompt is scheduled and the
\* "not available" message is sent as well
upload_both(r, file) ==
    [r EXCEPT !.file = file, !.pc = "timeout", !.tries.timeout = @ + 1,
              !.msgs = Append(@, "unavailable")]

\* execute, after convertImageToGif has returned file
upload(r, file) ==
    IF world.upload
    THEN [readModule(r, {"UploadHandler"}) EXCEPT
             !.file = file, !.pc = "timeout", !.tries.timeout = @ + 1]
    ELSE [readModule(r, {"UploadHandler", "messageUtil"}) EXCEPT
             !.file = file, !.pc = "done", !.msgs = Append(@, "unavailable")]

\* loadImage, up to the return of its promise
loadImage(r) ==
    [r EXCEPT !.urls.created = @ + 1, !.tries.image = @ + 1, !.pc = "image"]

\* a read of the module-level GIFEncoder
readLib(r) == readModule(r, {"GIFEncoder"})

\* loadGifEncoder, up to its first await or its return; with the handle
\* set it only returns, and the caller's `await loadGifEncoder()` still
\* yields before convertImageToGif goes on
loadGifEncoder(r) ==
    IF lib.GIFEncoder THEN [readLib(r) EXCEPT !.pc = "loaded"]
    ELSE [readLib(r) EXCEPT !.pc = "import", !.tries.import = @ + 1]

\* convertImageToGif, up to its first await
convertImageToGif(r) ==
    LET c == [r EXCEPT !.tries.convert = @ + 1]
    IN  IF world.variant = "gifenc" THEN loadGifEncoder(c) ELSE loadImage(c)

\* the identity of the object GIFEncoder() returns to execution e
NewEncoder(e) == e

\* execute, after the arguments are read and the image is there: the
\* processing message and the fetch
startFetch(r) ==
    [readModule(r, {"messageUtil"}) EXCEPT
        !.msgs = Append(@, "processing"), !.tries.fetch = @ + 1,
        !.pc = "fetch"]

\* a missing-image branch without its return
noImage_fallthrough(r) ==
    startFetch([r EXCEPT !.msgs = Append(@, "noimage")])

\* execute, when no image argument was given
noImage(r) ==
    [readModule(r, {"messageUtil"}) EXCEPT
        !.msgs = Append(@, "noimage"), !.pc = "done"]

\* a type check without its return
notImage_fallthrough(r) ==
    convertImageToGif([r EXCEPT !.msgs = Append(@, "notimage")])

\* execute, when the type of the fetched file does not start with "image/"
notImage(r) ==
    [readModule(r, {"messageUtil"}) EXCEPT
        !.msgs = Append(@, "notimage"), !.pc = "done"]

execute(e) ==
    /\ e \in world.execs
    /\ \E i \in DOMAIN commands : commands[i].registered
    /\ ex[e].pc = "idle"
    /\ \E image \in BOOLEAN, width \in world.widths, height \in world.heights :
         LET r == [writeLocal(ex[e], e, {"imageArg", "width", "height"})
                       EXCEPT !.image = image, !.width = width,
                              !.height = height]
         IN  ex' = [ex EXCEPT ![e] =
                 IF ~image THEN noImage(r) ELSE startFetch(r)]
    /\ UNCHANGED <<world, lib, encoders>>
    /\ UNCHANGED plugin

fetchSettled(e) ==
    /\ ex[e].pc = "fetch"
    /\ \E ok \in BOOLEAN :
         ex' = [ex EXCEPT ![e] =
                 IF ok THEN [writeLocal(@, e, {"response"}) EXCEPT
                                !.pc = "blob", !.tries.blob = @ + 1]
                 ELSE catch(@, "fetch")]
    /\ UNCHANGED <<world, lib, encoders>>
    /\ UNCHANGED plugin

blobSettled(e) ==
    /\ ex[e].pc = "blob"
    /\ \E type \in {"image/", "other", "rejected"} :
         ex' = [ex EXCEPT ![e] =
                 IF type = "rejected" THEN catch(@, "blob")
                 ELSE IF type = "other"
                      THEN notImage(writeLocal(@, e, {"blob", "file"}))
                 ELSE convertImageToGif(
                          writeLocal(@, e, {"blob", "file"}
                              \cup IF world.variant = "png"
                                   THEN {"isFile", "url", "img"} ELSE {}))]
    /\ UNCHANGED <<world, lib, encoders>>
    /\ UNCHANGED plugin

\* convertImageToGif throws, or an awaited rejection passes through it: its
\* promise is rejected, and execute, which awaits it, resumes in a later job
throw(r, step) == [r EXCEPT !.pc = "thrown", !.raised = step]

\* a failed import that is started again instead of thrown
importFailed_retry(r) == [r EXCEPT !.tries.import = @ + 1]

\* loadGifEncoder's catch: the error is logged and a new one thrown, which
\* rejects the promise convertImageToGif awaits
importFailed(r) == [r EXCEPT !.pc = "loadFailed"]

\* the three assignments that follow the awaited import
assignExports ==
    [GIFEncoder |-> TRUE, quantize |-> TRUE, applyPalette |-> TRUE]

importSettled(e) ==
    /\ ex[e].pc = "import"
    /\ \E ok \in BOOLEAN :
         IF ok
         THEN /\ lib' = assignExports
              /\ ex' = [ex EXCEPT ![e] =
                     [writeModule(writeLocal(@, e, {"module"}), HandleVars)
                         EXCEPT !.pc = "loaded"]]
         ELSE /\ ex' = [ex EXCEPT ![e] = importFailed(@)]
              /\ UNCHANGED lib
    /\ UNCHANGED <<world, encoders>>
    /\ UNCHANGED plugin

\* convertImageToGif resumes from `await loadGifEncoder()`: it calls
\* loadImage, or the rejection rejects its own promise, which execute awaits
loadGifEncoderAwaited(e) ==
    /\ ex[e].pc \in {"loaded", "loadFailed"}
    /\ ex' = [ex EXCEPT ![e] =
             IF @.pc = "loaded"
             THEN loadImage(writeLocal(@, e, {"isFile", "url", "img"}))
             ELSE throw(@, "import")]
    /\ UNCHANGED <<world, lib, encoders>>
    /\ UNCHANGED plugin

\* execute resumes from `await convertImageToGif(..)` with the rejection
\* and enters its catch
convertImageToGifRejected(e) ==
    /\ ex[e].pc = "thrown"
    /\ ex' = [ex EXCEPT ![e] = catch(@, @.raised)]
    /\ UNCHANGED <<world, lib, encoders>>
    /\ UNCHANGED plugin

\* the png variant, from the resolved loadImage to the await of toBlob
drawPng(r, ctx) ==
    IF ~ctx THEN throw(r, "context")
    ELSE [r EXCEPT !.pc = "toBlob", !.tries.toBlob = @ + 1]

\* a frame loop that runs once too often
writeFrames_twice(enc, gif, palette, i) ==
    writeFrame(writeFrame(enc, gif[1], gif[2], palette), gif[1], gif[2],
               palette)

\* the gifenc variant, from GIFEncoder() to the returned File: the frame loop
RECURSIVE writeFrames(_, _, _, _)
writeFrames(enc, gif, palette, i) ==
    IF i >= FRAMES THEN enc
    ELSE writeFrames(writeFrame(enc, gif[1], gif[2], palette), gif, palette,
                     i + 1)

\* img.onload: the URL is revoked and the promise of loadImage resolved
imgOnload(e) ==
    /\ ex[e].pc = "image"
    /\ \E avatar \in world.sources :
         ex' = [ex EXCEPT ![e] = [@ EXCEPT !.urls.revoked = @ + 1,
                                           !.avatar = avatar,
                                           !.pc = "decoded"]]
    /\ UNCHANGED <<world, lib, encoders>>
    /\ UNCHANGED plugin

\* convertImageToGif resumes from `await loadImage(imageFile)`: with the
\* image it runs on to the await of toBlob (png) or to its return (gifenc);
\* with the rejection of onerror it rejects its own promise
loadImageAwaited(e) ==
    /\ ex[e].pc \in {"decoded", "decodeFailed"}
    /\ IF ex[e].pc = "decodeFailed"
       THEN /\ ex' = [ex EXCEPT ![e] = throw(@, "image")]
            /\ UNCHANGED encoders
       ELSE \E ctx \in BOOLEAN :
            \E gif \in {world.dims[ex[e].avatar, ex[e].width, ex[e].height]} :
              LET r == [writeLocal(ex[e], e, {"avatar", "gifWidth",
                                              "gifHeight", "canvas", "ctx"})
                            EXCEPT !.gif = gif]
              IN  IF world.variant = "png"
                  THEN /\ ex' = [ex EXCEPT ![e] = drawPng(r, ctx)]
                       /\ UNCHANGED encoders
                  ELSE LET id == NewEncoder(e)
                           g  == [writeLocal(readModule(readLib(r),
                                                 {"FRAMES"}), e, {"gif"})
                                     EXCEPT !.encoder = id]
                           s0 == IF id \in DOMAIN encoders THEN encoders[id]
                                 ELSE NewStream
                       IN  IF ~ctx \/ gif[1] = 0 \/ gif[2] = 0
                           THEN /\ ex' = [ex EXCEPT ![e] =
                                      throw(g, IF ctx THEN "size"
                                               ELSE "context")]
                                /\ encoders' = (id :> s0) @@ encoders
                           ELSE \E colors \in ColorCounts :
                                \E palette \in quantize(colors, MaxColors) :
                                  /\ colors <= gif[1] * gif[2]
                                  /\ LET s1 == finish(writeFrames(s0, gif,
                                                                  palette, 0))
                                     IN  /\ encoders' = (id :> s1) @@ encoders
                                         /\ ex' = [ex EXCEPT ![e] =
                                              [writeLocal(readModule(g,
                                                   {"quantize",
                                                    "applyPalette"}), e,
                                                   {"data", "palette", "index",
                                                    "originalName", "gifFile"})
                                               EXCEPT !.colors = colors,
                                                        !.palette = palette,
                                                        !.file = GifFile(s1),
                                                        !.pc = "returned"]]
    /\ UNCHANGED <<world, lib>>
    /\ UNCHANGED plugin

\* an onerror that resolves with the broken image: the conversion goes on
\* and returns the file of an encoder that got no frame
imageFailed_swallowed(r) ==
    [r EXCEPT !.err = "image", !.file = GifFile(finish(NewStream)),
              !.pc = "returned"]

\* an onerror that does not reject: the promise of loadImage never settles
imageFailed_hung(r) == [r EXCEPT !.pc = "hung"]

\* img.onerror rejects the promise of loadImage and revokes nothing
imageFailed(r) == [r EXCEPT !.pc = "decodeFailed"]

imgOnerror(e) ==
    /\ ex[e].pc = "image"
    /\ ex' = [ex EXCEPT ![e] = imageFailed(@)]
    /\ UNCHANGED <<world, lib, encoders>>
    /\ UNCHANGED plugin

\* the callback of canvas.toBlob: it resolves with the blob the host
\* passes, or rejects when the host passes null; the host has no blob for
\* an empty canvas and may have none for another one
toBlobCallback(e) ==
    /\ ex[e].pc = "toBlob"
    /\ \E blob \in BOOLEAN :
         /\ (ex[e].gif[1] = 0 \/ ex[e].gif[2] = 0) => ~blob
         /\ ex' = [ex EXCEPT ![e] =
                  [@ EXCEPT !.pc = IF blob THEN "blobbed" ELSE "blobFailed"]]
    /\ UNCHANGED <<world, lib, encoders>>
    /\ UNCHANGED plugin

\* convertImageToGif (png) resumes from the await of the toBlob promise:
\* it makes the File and returns it, or the rejection rejects its promise
toBlobAwaited(e) ==
    /\ ex[e].pc \in {"blobbed", "blobFailed"}
    /\ ex' = [ex EXCEPT ![e] =
             IF @.pc = "blobFailed" THEN throw(@, "toBlob")
             ELSE [writeLocal(@, e, {"blob", "originalName", "gifFile"})
                      EXCEPT !.file = PngFile(ex[e].gif[1], ex[e].gif[2]),
                             !.pc = "returned"]]
    /\ UNCHANGED <<world, lib, encoders>>
    /\ UNCHANGED plugin

\* execute resumes from `await convertImageToGif(..)` with the file
convertImageToGifReturned(e) ==
    /\ ex[e].pc = "returned"
    /\ ex' = [ex EXCEPT ![e] = upload(@, @.file)]
    /\ UNCHANGED <<world, lib, encoders>>
    /\ UNCHANGED plugin

timeoutFires(e) ==
    /\ ex[e].pc = "timeout"
    /\ ex' = [ex EXCEPT ![e] = [@ EXCEPT !.prompts = Append(@, ex[e].file),
                                         !.pc = "done"]]
    /\ UNCHANGED <<world, lib, encoders>>
    /\ UNCHANGED plugin

----------------------------------------------------------------------------
(* The plugin's lifecycle.                                                 *)

\* registerCommand: a command that is registered and whose unregister
\* function has not been called
NewCommand == [registered |-> TRUE, unregistered |-> 0]

onLoad ==
    /\ Len(calls) < MaxCalls
    /\ commands' = Append(commands, NewCommand)
    /\ unregisterCommand' = Len(commands) + 1
    /\ calls' = Append(calls, "onLoad")
    /\ UNCHANGED <<world, ex, lib, encoders>>

onUnload ==
    /\ Len(calls) < MaxCalls
    /\ IF unregisterCommand # 0
       THEN commands' = [commands EXCEPT ![unregisterCommand] =
                [registered |-> FALSE, unregistered |-> @.unregistered + 1]]
       ELSE UNCHANGED commands
    /\ calls' = Append(calls, "onUnload")
    /\ UNCHANGED <<world, ex, lib, encoders, unregisterCommand>>

----------------------------------------------------------------------------
(* Specifications.                                                         *)

Start ==
    /\ ex = [e \in Execs |-> Idle]
    /\ lib = [GIFEncoder |-> FALSE, quantize |-> FALSE, applyPalette |-> FALSE]
    /\ encoders = <<>>

\* the module as it is evaluated: nothing is registered
Unloaded ==
    /\ unregisterCommand = 0
    /\ commands = <<>>
    /\ calls = <<>>

\* the plugin after the host has loaded it
LoadedOnce ==
    /\ unregisterCommand = 1
    /\ commands = <<NewCommand>>
    /\ calls = <<"onLoad">>

\* the runs of several executions: either variant, with and without the
\* upload handler, on each of the inputs
Worlds(execs, inputs) ==
    {[variant |-> v, upload |-> u, execs |-> execs, sources |-> i.sources,
      widths |-> i.widths, heights |-> ConcTargets,
      dims |-> ResolvedDims(i.sources, i.widths, ConcTargets)] :
        v \in {"png", "gifenc"}, u \in BOOLEAN, i \in inputs}

\* one command execution, with every size and argument
Init ==
    /\ world \in [variant : {"png", "gifenc"}, upload : BOOLEAN,
                  execs : {{1}}, sources : {Sources}, widths : {Targets},
                  heights : {Targets},
                  dims : {ResolvedDims(Sources, Targets, Targets)}]
    /\ Start
    /\ LoadedOnce

\* NumExecs command executions in flight together
ConcInit ==
    /\ world \in Worlds(Execs, ConcInputs)
    /\ Start
    /\ LoadedOnce

\* the host loading and unloading the plugin, and one command execution
LifeInit ==
    /\ world \in Worlds({1}, ConcInputs)
    /\ Start
    /\ Unloaded

Next ==
    \/ \E e \in Execs : execute(e)
    \/ \E e \in Execs : fetchSettled(e)
    \/ \E e \in Execs : blobSettled(e)
    \/ \E e \in Execs : importSettled(e)
    \/ \E e \in Execs : loadGifEncoderAwaited(e)
    \/ \E e \in Execs : convertImageToGifRejected(e)
    \/ \E e \in Execs : imgOnload(e)
    \/ \E e \in Execs : imgOnerror(e)
    \/ \E e \in Execs : loadImageAwaited(e)
    \/ \E e \in Execs : toBlobAwaited(e)
    \/ \E e \in Execs : convertImageToGifReturned(e)
    \/ \E e \in Execs : toBlobCallback(e)
    \/ \E e \in Execs : timeoutFires(e)

LifeNext ==
    \/ Next
    \/ onLoad
    \/ onUnload

Spec == Init /\ [][Next]_vars

LifeSpec == LifeInit /\ [][LifeNext]_vars

ConcSpec == ConcInit /\ [][Next]_vars

\* every awaited step settles and every timer fires
Settles ==
    \A e \in Execs :
        /\ WF_vars(fetchSettled(e))
        /\ WF_vars(blobSettled(e))
        /\ WF_vars(importSettled(e))
        /\ WF_vars(loadGifEncoderAwaited(e))
        /\ WF_vars(convertImageToGifRejected(e))
        /\ WF_vars(imgOnload(e) \/ imgOnerror(e))
        /\ WF_vars(loadImageAwaited(e))
        /\ WF_vars(toBlobCallback(e))
        /\ WF_vars(toBlobAwaited(e))
        /\ WF_vars(convertImageToGifReturned(e))
        /\ WF_vars(timeoutFires(e))

\* NumExecs executions in flight together, all on the same image and with
\* the same arguments
FairInit ==
    /\ world \in Worlds(Execs, FairInputs)
    /\ Start
    /\ LoadedOnce

FairSpec == FairInit /\ [][Next]_vars /\ Settles

TypeOK ==
    /\ DOMAIN ex = Execs
    /\ \A e \in Execs :
         ex[e].pc \in {"idle", "fetch", "blob", "import", "loaded",
                       "loadFailed", "thrown", "image", "decoded",
                       "decodeFailed", "toBlob", "blobbed", "blobFailed",
                       "returned", "timeout", "done"}

----------------------------------------------------------------------------
(* Properties.                                                             *)

Done(e) == ex[e].pc = "done"
HasFile(e) == ex[e].file # NoFile
Count(seq, x) == Cardinality({i \in 1..Len(seq) : seq[i] = x})
Last(seq) == seq[Len(seq)]

\* the nearest integer to num / den, a tie going up
ExactRound(num, den) == (2 * num + den) \div (2 * den)

\* C1: with positive or omitted targets the resolved size is
\* (width, height), (width, round(width * H0 / W0)),
\* (round(height * W0 / H0), height) or (W0, H0).
C1_DimensionResolution ==
    \A e \in Execs :
        LET w == ex[e].width
            h == ex[e].height
            W0 == ex[e].avatar[1]
            H0 == ex[e].avatar[2]
        IN  (ex[e].gif # <<>> /\ w # 0 /\ h # 0) =>
                ex[e].gif =
                    IF w # Undefined /\ h # Undefined THEN <<w, h>>
                    ELSE IF w # Undefined THEN <<w, ExactRound(w * H0, W0)>>
                    ELSE IF h # Undefined THEN <<ExactRound(h * W0, H0), h>>
                    ELSE <<W0, H0>>

\* C2: every file a conversion returns begins with the bytes of "GIF89a"
\* and ends with the byte 0x3B.
C2_GifContainer ==
    \A e \in Execs :
        HasFile(e) =>
            /\ FirstBytes(ex[e].file) = <<71, 73, 70, 56, 57, 97>>
            /\ LastByte(ex[e].file) = 59

\* C3: a conversion whose requested or resolved width or height is 0
\* produces no file.
C3_ZeroDimensionFatal ==
    \A e \in Execs :
        (/\ ex[e].gif # <<>>
         /\ \/ ex[e].width = 0 \/ ex[e].height = 0
            \/ ex[e].gif[1] = 0 \/ ex[e].gif[2] = 0)
        => ~HasFile(e)

\* C4: when loadImage rejects, the execution ends with the error message,
\* no file exists, nothing reaches promptToUpload and no encoder was made.
C4_DecodeFailureSurfaced ==
    \A e \in Execs :
        ex[e].err = "image" =>
            /\ Done(e)
            /\ Last(ex[e].msgs) = "error"
            /\ ~HasFile(e)
            /\ ex[e].prompts = <<>>
            /\ ex[e].encoder = 0

C4_Witness == \E e \in Execs : ex[e].err = "image" /\ Done(e)

\* the steps whose failure ends an execution
Stages == {"fetch", "blob", "import", "image", "context", "size", "toBlob"}

\* C5: no step of an execution is started twice; a failure of any step
\* (the fetch, the blob, the import, the image load, the canvas context, an
\* empty canvas, a missing toBlob blob) ends the execution with exactly one
\* error message, no prompt and no timer, and a conversion that was rejected
\* starts nothing more.
C5_NoRetries ==
    \A e \in Execs :
        /\ \A step \in DOMAIN ex[e].tries : ex[e].tries[step] <= 1
        /\ Count(ex[e].msgs, "error") <= 1
        /\ ex[e].raised # "" =>
               /\ ex[e].pc \in {"thrown", "done"}
               /\ ex[e].tries.timeout = 0 /\ ex[e].prompts = <<>>
               /\ ex[e].pc = "done" => ex[e].err = ex[e].raised
        /\ ex[e].err # "" =>
               /\ ex[e].err \in Stages
               /\ Done(e)
               /\ Count(ex[e].msgs, "error") = 1
               /\ Last(ex[e].msgs) = "error"
               /\ ex[e].prompts = <<>> /\ ex[e].tries.timeout = 0

C5_Witness ==
    \E e \in Execs : \E f \in Execs \ {e} :
        /\ ex[e].err = "toBlob" /\ ex[e].tries.toBlob = 1
        /\ ex[e].gif[1] > 0 /\ ex[e].gif[2] > 0
        /\ Done(e) /\ Count(ex[e].msgs, "error") = 1
        /\ ex[f].err = "image" /\ ex[f].tries.image = 1
        /\ Done(f) /\ Count(ex[f].msgs, "error") = 1

\* C6: at most one import of the library is in flight at any time.
C6_SingleImport ==
    Cardinality({e \in Execs : ex[e].pc = "import"}) <= 1

\* the variables execution e has written and execution f has read or written
Shared(e, f) == ex[e].writes \cap (ex[f].reads \cup ex[f].writes)

Terminal(e) ==
    /\ Done(e)
    /\ \/ ex[e].prompts # <<>>
       \/ Last(ex[e].msgs) \in {"noimage", "notimage", "unavailable", "error"}

\* C8: every execution that was started reaches a terminal outcome.
C8_RunsToCompletion ==
    \A e \in Execs : (ex[e].pc # "idle") ~> Terminal(e)

C8_Witness ==
    \E e \in Execs :
        /\ Terminal(e) /\ ex[e].err = "size"
        /\ ex[e].gif = <<1, 0>> /\ ex[e].tries.image = 1

\* C9: the colour table of every returned file has exactly 256 entries.
C9_Palette256 ==
    \A e \in Execs :
        HasFile(e) =>
            /\ BlocksOf(ex[e].file, "global-table") # {}
            /\ \A i \in BlocksOf(ex[e].file, "global-table") :
                   ex[e].file.stream[i].n = 256

\* C10: every returned file carries LZW image data with minimum code size
\* 8 that stands for the width x height entries of the index buffer.
C10_LzwImageData ==
    \A e \in Execs :
        HasFile(e) =>
            /\ BlocksOf(ex[e].file, "pixels") # {}
            /\ \A i \in BlocksOf(ex[e].file, "pixels") :
                   /\ ex[e].file.stream[i].n = 8
                   /\ ex[e].file.stream[i].w * ex[e].file.stream[i].h
                          = ex[e].gif[1] * ex[e].gif[2]

\* C11: the image data of every returned file is a run of sub-blocks that
\* closes with its zero-length block right before the trailer: the block
\* before the trailer, the last byte, is the pixel data.
C11_SubBlocksBeforeTrailer ==
    \A e \in Execs :
        HasFile(e) =>
            LET s == ex[e].file.stream
            IN  /\ Len(s) >= 2
                /\ s[Len(s)].kind = "trailer"
                /\ s[Len(s) - 1].kind = "pixels"

\* C13 (as claimed): a conversion suspends on the image decode only.
C13_DecodeOnlyAwait ==
    \A e \in Execs : ex[e].tries.import = 0 /\ ex[e].tries.toBlob = 0

\* C13 (amended): a conversion also awaits the library import (gifenc) or
\* the toBlob callback (png); quantization starts only after the image has
\* loaded, the file is returned in the step that quantizes, and the file
\* holds one frame, written before the trailer.
C13_QuantizeAfterDecode ==
    \A e \in Execs :
        /\ ex[e].tries.import = 1 => world.variant = "gifenc"
        /\ ex[e].tries.toBlob = 1 => world.variant = "png"
        /\ ex[e].palette # 0 =>
               /\ ex[e].tries.image = 1 /\ ex[e].urls.revoked = 1
               /\ ex[e].avatar # <<0, 0>>
               /\ HasFile(e)
        /\ (HasFile(e) /\ world.variant = "gifenc") =>
               /\ ex[e].palette # 0
               /\ Cardinality(BlocksOf(ex[e].file, "image")) = FRAMES
               /\ Cardinality(BlocksOf(ex[e].file, "pixels")) = FRAMES
               /\ BlocksOf(ex[e].file, "trailer") = {Len(ex[e].file.stream)}

C13_Witness ==
    \E e \in Execs :
        /\ HasFile(e) /\ world.variant = "gifenc"
        /\ ex[e].tries.import = 1 /\ ex[e].tries.image = 1

\* the terminal outcomes an execution has produced so far
Outcomes(e) ==
    Count(ex[e].msgs, "noimage") + Count(ex[e].msgs, "notimage")
        + Count(ex[e].msgs, "unavailable") + Count(ex[e].msgs, "error")
        + ex[e].tries.timeout

\* C14: an execution produces at most one terminal outcome, and exactly one
\* once it has ended; one that scheduled the prompt sends no error; the
\* prompt is given at most once, and only the file the conversion returned.
C14_OneOutcome ==
    \A e \in Execs :
        /\ Outcomes(e) <= 1
        /\ Done(e) => Outcomes(e) = 1
        /\ ex[e].tries.timeout = 1 =>
               /\ Count(ex[e].msgs, "error") = 0
               /\ HasFile(e)
        /\ Len(ex[e].prompts) <= 1
        /\ ex[e].prompts # <<>> =>
               /\ HasFile(e) /\ ex[e].prompts[1] = ex[e].file
               /\ ex[e].tries.timeout = 1

C14_Witness ==
    \E e \in Execs : \E f \in Execs \ {e} :
        /\ Done(e) /\ Len(ex[e].prompts) = 1 /\ ex[e].msgs = <<"processing">>
        /\ Done(f) /\ ex[f].err = "toBlob" /\ HasFile(f) = FALSE
        /\ ex[f].msgs = <<"processing", "error">>

\* C15: an execution without image argument sends the one message and
\* stops: no processing message, no fetch, no library load, no conversion,
\* no upload.
C15_NoImageStops ==
    \A e \in Execs :
        (ex[e].pc # "idle" /\ ~ex[e].image) =>
            /\ ex[e].msgs = <<"noimage">>
            /\ Done(e)
            /\ ex[e].tries = NoTries
            /\ ~HasFile(e) /\ ex[e].prompts = <<>>
            /\ ex[e].reads = {Module("messageUtil")}
            /\ ex[e].writes = {Local(e, "imageArg"), Local(e, "width"),
                               Local(e, "height")}
            /\ ex[e].encoder = 0

C15_Witness ==
    \E e \in Execs : ex[e].pc # "idle" /\ ~ex[e].image /\ Done(e)

\* C16: an execution whose fetched file is no image sends the
\* not-a-valid-image message and stops: convertImageToGif is not called,
\* the library is not loaded by it, nothing is prompted.
C16_NotImageStops ==
    \A e \in Execs :
        Count(ex[e].msgs, "notimage") > 0 =>
            /\ ex[e].msgs = <<"processing", "notimage">>
            /\ Done(e)
            /\ ex[e].tries.convert = 0 /\ ex[e].tries.import = 0
            /\ ex[e].tries.image = 0 /\ ex[e].tries.timeout = 0
            /\ ~HasFile(e) /\ ex[e].prompts = <<>>
            /\ ex[e].reads \cup ex[e].writes \subseteq
                   {Module("messageUtil"), Local(e, "imageArg"),
                    Local(e, "width"), Local(e, "height"),
                    Local(e, "response"), Local(e, "blob"), Local(e, "file")}
            /\ ex[e].encoder = 0

C16_Witness ==
    \E e \in Execs : Count(ex[e].msgs, "notimage") = 1 /\ Done(e)

\* C17: after a last call of onUnload no command of the plugin is still
\* registered and every unregister function was called exactly once.
C17_UnloadUnregistersAll ==
    (calls # <<>> /\ Last(calls) = "onUnload") =>
        \A i \in DOMAIN commands :
            ~commands[i].registered /\ commands[i].unregistered = 1

\* C18: when an import of loadGifEncoder fails, GIFEncoder, quantize and
\* applyPalette are unset, so that the next call imports again.
C18_FailedImportLeavesUnset ==
    [][\A e \in Execs :
          (ex[e].pc = "import" /\ ex'[e].pc = "loadFailed") =>
              (~lib'.GIFEncoder /\ ~lib'.quantize /\ ~lib'.applyPalette)]_vars

\* C19: once the load of the image has settled, by onload or by onerror,
\* the object URL created for the file has been revoked exactly once, and
\* no URL is revoked that was not created.
C19_UrlRevokedOnce ==
    \A e \in Execs :
        /\ ex[e].urls.revoked <= ex[e].urls.created
        /\ (ex[e].urls.created = 1 /\ ex[e].pc # "image") =>
               ex[e].urls.revoked = 1
====
